---- MODULE Spec2Model ----
(***************************************************************************)
(* A model of the Rust backend of the Stone code generator                 *)
(* (generator/rust.stoneg.py): the naming rules, the route emitter, the    *)
(* struct and union emitters, and the behaviour of the serde code they     *)
(* emit (the struct decoder's visit_map, the struct and union encoders),   *)
(* and generate() over several namespaces with the module index mod.rs.    *)
(***************************************************************************)
EXTENDS Integers, Sequences, FiniteSets, TLC

VARIABLES
    pc,       \* position of the generator run / of the emitted code under execution
    idx,      \* the generator's loop index (route being emitted)
    ident,    \* naming rules: the raw name, its category and the resolved names
    api,      \* the namespace being emitted: its name, aliases, routes and types
    out,      \* the lines emitted so far into the namespace's source unit
    modules,  \* self._modules
    wire,     \* the serialized value handed to / produced by the emitted code
    pos,      \* visit_map: index of the next map entry
    slots,    \* visit_map: the `let mut <field> = None;` locals
    res,      \* result of the emitted code (decoded value, error, default value)
    orig,     \* the value given to the emitted encoder
    dflt,     \* the value the emitted Default constructor returned
    schema,   \* api.namespaces.values(): the namespaces generate() walks
    nsidx,    \* generate(): index of the namespace being emitted
    files     \* the files written under the target folder, in order

vars == <<pc, idx, ident, api, out, modules, wire, pos, slots, res, orig, dflt,
          schema, nsidx, files>>

-----------------------------------------------------------------------------
(* Bounds of the model.                                                    *)

MaxWords == 2      \* words in a raw schema name
MaxRoutes == 2     \* routes declared in a namespace
MaxFields == 2     \* fields of a struct
MaxEntries == 3    \* entries of a field set handed to the decoder
MaxVariants == 2   \* variants of a union

-----------------------------------------------------------------------------
(* Identifiers.  A name is its list of words and the case convention it is *)
(* written in: "lower" (words in lower case joined by `_`), "camel" and    *)
(* "pascal".  A one-word camel name is the same string as the lower one.   *)

Nm(w, c) == [w |-> w, c |-> IF c = "camel" /\ Len(w) = 1 THEN "lower" ELSE c]

NoName == [w |-> <<>>, c |-> "none"]

Keywords ==
    { "abstract", "alignof", "as", "become", "box", "break", "const", "continue",
      "crate", "do", "else", "enum", "extern", "false", "final", "fn", "for", "if",
      "impl", "in", "let", "loop", "macro", "match", "mod", "move", "mut",
      "offsetof", "override", "priv", "proc", "pub", "pure", "ref", "return",
      "self", "sizeof", "static", "struct", "super", "trait", "true", "type",
      "typeof", "unsafe", "unsized", "use", "virtual", "where", "while", "yield",
      "drop" }

PreludeNames ==
    { <<"self">>, <<"copy">>, <<"send">>, <<"sized">>, <<"sync">>, <<"drop">>,
      <<"fn">>, <<"fn", "mut">>, <<"fn", "once">>, <<"box">>, <<"to", "owned">>,
      <<"clone">>, <<"partial", "eq">>, <<"partial", "ord">>, <<"eq">>, <<"ord">>,
      <<"as", "ref">>, <<"as", "mut">>, <<"into">>, <<"from">>, <<"default">>,
      <<"iterator">>, <<"extend">>, <<"into", "iterator">>,
      <<"double", "ended", "iterator">>, <<"exact", "size", "iterator">>,
      <<"option">>, <<"some">>, <<"none">>, <<"result">>, <<"ok">>, <<"err">>,
      <<"slice", "concat", "ext">>, <<"string">>, <<"to", "string">>, <<"vec">> }

RUST_RESERVED_WORDS ==
    { Nm(<<k>>, "lower") : k \in Keywords } \cup { Nm(w, "pascal") : w \in PreludeNames }

\* stone.target.helpers: split the name into words, then rejoin them.
fmt_underscores(name) == Nm(name.w, "lower")

fmt_pascal(name) == Nm(name.w, "pascal")

\* `name += '<suffix>'`: the suffix is one more word, written in the case the
\* caller writes it in ('Struct' after a PascalCase name, '_field' after a
\* snake_case one).
Suffixed(name, word, c) ==
    IF name.c = c \/ name.w = <<>> THEN Nm(name.w \o <<word>>, c)
    ELSE IF name.c = "lower" /\ c = "pascal" THEN Nm(name.w \o <<word>>, "camel")
    ELSE Nm(name.w \o <<word>>, "mixed")

_namespace_name(ns) ==
    LET name == fmt_underscores(ns.name)
    IN  IF name \in RUST_RESERVED_WORDS THEN Suffixed(name, "namespace", "lower") ELSE name

_struct_name(struct) ==
    LET name == fmt_pascal(struct.name)
    IN  IF name \in RUST_RESERVED_WORDS THEN Suffixed(name, "struct", "pascal") ELSE name

_enum_name(union) ==
    LET name == fmt_pascal(union.name)
    IN  IF name \in RUST_RESERVED_WORDS THEN Suffixed(name, "union", "pascal") ELSE name

\* (mutation of _field_name: the reserved-word check is dropped)
_field_name_unchecked(field) == fmt_underscores(field.name)

_field_name(field) ==
    LET name == fmt_underscores(field.name)
    IN  IF name \in RUST_RESERVED_WORDS THEN Suffixed(name, "field", "lower") ELSE name

_enum_variant_name(field) ==
    LET name == fmt_pascal(field.name)
    IN  IF name \in RUST_RESERVED_WORDS THEN Suffixed(name, "variant", "pascal") ELSE name

_route_name(route) ==
    LET name == fmt_underscores(route.name)
    IN  IF name \in RUST_RESERVED_WORDS THEN Suffixed(name, "route", "lower") ELSE name

_alias_name(alias) ==
    LET name == fmt_pascal(alias.name)
    IN  IF name \in RUST_RESERVED_WORDS THEN Suffixed(name, "alias", "pascal") ELSE name

Categories == {"namespace", "struct", "enum", "field", "variant", "route", "alias"}

Resolve(cat, obj) ==
    CASE cat = "namespace" -> _namespace_name(obj)
      [] cat = "struct"    -> _struct_name(obj)
      [] cat = "enum"      -> _enum_name(obj)
      [] cat = "field"     -> _field_name(obj)
      [] cat = "variant"   -> _enum_variant_name(obj)
      [] cat = "route"     -> _route_name(obj)
      [] cat = "alias"     -> _alias_name(obj)

\* The raw names the schema may carry.
NameWords == {"box", "self", "type", "fn", "mut", "foo", "field", "struct"}

WordSeqs(n) == UNION { [1..k -> NameWords] : k \in 1..n }

RawNames == { Nm(w, c) : w \in WordSeqs(MaxWords), c \in {"lower", "camel", "pascal"} }


Idle == [raw |-> NoName, cat |-> "none", once |-> NoName, twice |-> NoName]

-----------------------------------------------------------------------------
(* Schema values shared by the emitters.                                   *)

PyNone == "None"

\* fn.attrs.get(key, default)
AttrGet(attrs, key, default) == IF key \in DOMAIN attrs THEN attrs[key] ELSE default

NoAttrs == [k \in {} |-> ""]

\* Emitted type expressions: a primitive, a generic wrapper, or a (possibly
\* `super::<mod>::`-qualified) path.
Prim(s) == [e |-> s, args |-> <<>>, mod |-> NoName, name |-> NoName]

Generic(s, a) == [e |-> s, args |-> a, mod |-> NoName, name |-> NoName]

Path(m, n) == [e |-> "path", args |-> <<>>, mod |-> m, name |-> n]

NumericTypes == {"Int32", "UInt32", "Int64", "UInt64", "Float32", "Float64"}

RECURSIVE _rust_type(_, _)
_rust_type(typ, _current_namespace) ==
    CASE typ.t = "Nullable"  -> Generic("Option", <<_rust_type(typ.data_type, _current_namespace)>>)
      [] typ.t = "Void"      -> Prim("()")
      [] typ.t = "Bytes"     -> Prim("Vec<u8>")
      [] typ.t = "Int32"     -> Prim("i32")
      [] typ.t = "UInt32"    -> Prim("u32")
      [] typ.t = "Int64"     -> Prim("i64")
      [] typ.t = "UInt64"    -> Prim("u64")
      [] typ.t = "Float32"   -> Prim("f32")
      [] typ.t = "Float64"   -> Prim("f64")
      [] typ.t = "Boolean"   -> Prim("bool")
      [] typ.t = "String"    -> Prim("String")
      [] typ.t = "Timestamp" -> Prim("String /*Timestamp*/")
      [] typ.t = "List"      -> Generic("Vec", <<_rust_type(typ.data_type, _current_namespace)>>)
      [] typ.t = "Map"       -> Generic("HashMap", <<_rust_type(typ.key_data_type, _current_namespace),
                                                     _rust_type(typ.value_data_type, _current_namespace)>>)
      [] typ.t = "Alias"     ->
            IF typ.namespace.name = _current_namespace
            THEN Path(NoName, _alias_name(typ))
            ELSE Path(_namespace_name(typ.namespace), _alias_name(typ))
      [] typ.t \in {"Struct", "Union"} ->
            LET name == IF typ.t = "Struct" THEN _struct_name(typ) ELSE _enum_name(typ)
            IN  IF typ.namespace.name = _current_namespace
                THEN Path(NoName, name)
                ELSE Path(_namespace_name(typ.namespace), name)
      [] OTHER               -> Prim("()")

_emit_doc(doc_string) ==
    IF doc_string # PyNone THEN <<[kind |-> "doc", text |-> doc_string]>> ELSE <<>>

_emit_header == <<[kind |-> "header"]>>

Blank == [kind |-> "blank"]

Close == [kind |-> "close"]

-----------------------------------------------------------------------------
(* Route Emitter.                                                          *)

Endpoints == [api |-> "Endpoint::Api", content |-> "Endpoint::Content", notify |-> "Endpoint::Notify"]

FnLine(route_name, extra, envelope, fn, cur) ==
    [kind |-> "fn", name |-> route_name, params |-> <<"client", "arg">> \o extra,
     arg |-> _rust_type(fn.arg_data_type, cur), envelope |-> envelope,
     ok |-> _rust_type(fn.result_data_type, cur), err |-> _rust_type(fn.error_data_type, cur)]

\* (mutation of CallLine: the path is built from the resolved route name)
CallLineResolvedName(helper, endpoint, ns, fn, rest) ==
    [kind |-> "call", helper |-> helper, endpoint |-> endpoint,
     path |-> <<ns, _route_name(fn)>>, args |-> <<"client", endpoint, "path", "arg">> \o rest]

CallLine(helper, endpoint, ns, fn, rest) ==
    [kind |-> "call", helper |-> helper, endpoint |-> endpoint,
     path |-> <<ns, fn.name>>, args |-> <<"client", endpoint, "path", "arg">> \o rest]

\* (mutation of _emit_route_raises: the diagnostic is raised, not printed)
_emit_route_raises_on_error(fn) ==
    \/ AttrGet(fn.attrs, "host", "api") \notin {"api", "content", "notify"}
    \/ AttrGet(fn.attrs, "style", "rpc") \notin {"rpc", "download", "upload"}

\* Whether _emit_route ends the run on this route: it never does, an
\* unsupported host or style is printed and the function returns.
_emit_route_raises(fn) == FALSE

_emit_route(ns, fn, cur) ==
    LET route_name == _route_name(fn)
        doc == _emit_doc(fn.doc)
        host == AttrGet(fn.attrs, "host", "api")
        style == AttrGet(fn.attrs, "style", "rpc")
    IN  IF host \notin {"api", "content", "notify"}
        THEN doc                                   \* ERROR: unsupported endpoint; return
        ELSE
          LET endpoint == Endpoints[host]
          IN  CASE style = "rpc" ->
                     doc \o <<FnLine(route_name, <<>>, "none", fn, cur),
                              CallLine("request", endpoint, ns, fn, <<"None">>),
                              Close, Blank>>
                [] style = "download" ->
                     doc \o <<FnLine(route_name, <<"range_start", "range_end">>,
                                     "HttpRequestResult", fn, cur),
                              CallLine("request_with_body", endpoint, ns, fn,
                                       <<"None", "range_start", "range_end">>),
                              Close, Blank>>
                [] style = "upload" ->
                     doc \o <<FnLine(route_name, <<"body">>, "HttpRequestResult", fn, cur),
                              CallLine("request_with_body", endpoint, ns, fn,
                                       <<"Some(body)", "None", "None">>),
                              Close, Blank>>
                [] OTHER -> doc                    \* ERROR: unknown route style; return

_emit_alias(alias, cur) ==
    <<[kind |-> "alias", name |-> _alias_name(alias), type |-> _rust_type(alias.data_type, cur)]>>

-----------------------------------------------------------------------------
(* Default Value Synthesizer.                                              *)

IsNullable(field) == field.data_type.t = "Nullable"

\* struct.all_required_fields / struct.all_optional_fields (stone): a field is
\* optional when it is nullable or carries a default.
IsRequired(field) == ~IsNullable(field) /\ ~field.has_default

all_required_fields(struct) == SelectSeq(struct.all_fields, IsRequired)

all_optional_fields(struct) == SelectSeq(struct.all_fields, LAMBDA f : ~IsRequired(f))

RECURSIVE unwrap_aliases(_)
unwrap_aliases(typ) == IF typ.t = "Alias" THEN unwrap_aliases(typ.data_type) ELSE typ

Last(s) == s[Len(s)]

Raised == [e |-> "raise"]

\* The variants named like the tag, in scan order (the loop keeps the last).
Matching(union, tag_name) == SelectSeq(union.all_fields, LAMBDA v : v.name = tag_name)

\* `default_variant = variant` after the two loops: the loop variable left by
\* the last loop that ran at least once; unbound (NameError) when neither did.
LastScanned(union) ==
    IF union.fields # <<>> THEN [found |-> TRUE, variant |-> Last(union.fields)]
    ELSE IF union.all_fields # <<>> THEN [found |-> TRUE, variant |-> Last(union.all_fields)]
    ELSE [found |-> FALSE]

_default_value(field, cur) ==
    IF IsNullable(field) THEN [e |-> "None"]
    ELSE IF unwrap_aliases(field.data_type).t \in NumericTypes
    THEN [e |-> "raw", v |-> field.default]
    ELSE IF field.default.t = "TagRef"
    THEN LET union == field.default.union_data_type
             hits == Matching(union, field.default.tag_name)
             scan == LastScanned(union)
         IN  IF hits # <<>>
             THEN [e |-> "variant", type |-> _rust_type(union, cur),
                   variant |-> _enum_variant_name(Last(hits))]
             ELSE IF scan.found
             THEN [e |-> "variant", type |-> _rust_type(union, cur),
                   variant |-> _enum_variant_name(scan.variant)]
             ELSE Raised
    ELSE IF field.data_type.t = "Boolean"
    THEN [e |-> "lit", v |-> IF field.default.v \notin {"False", "None", "", "0"} THEN "true" ELSE "false"]
    ELSE IF field.data_type.t = "String"
    THEN IF field.default.v = "" THEN [e |-> "lit", v |-> "String::new()"]
         ELSE [e |-> "to_owned", v |-> field.default.v]
    ELSE [e |-> "raw", v |-> field.default]

-----------------------------------------------------------------------------
(* Struct Emitter and the struct codec.                                    *)

Map(f(_), s) == [i \in 1..Len(s) |-> f(s[i])]

\* (mutation of DeserializeArm: the duplicate check is keyed by another local)
DeserializeArmNoCheck(field) ==
    [key |-> field.name, check |-> NoName, var |-> _field_name(field)]

\* One arm of `match key`: "<field.name>" => { if <var>.is_some() { duplicate }
\* <var> = Some(map.next_value()?); }
DeserializeArm(field) ==
    [key |-> field.name, check |-> _field_name(field), var |-> _field_name(field)]

\* (mutation of DeserializeFinal: a default-bearing field is demanded like a
\* required one)
DeserializeFinalAllRequired(field, cur) ==
    LET field_name == _field_name(field)
    IN  IF IsNullable(field) THEN [var |-> field_name, how |-> "as_is"]
        ELSE [var |-> field_name, how |-> "ok_or_else", missing |-> field.name]

\* One member of the `Ok(Type { ... })` the decoder ends with.
DeserializeFinal(field, cur) ==
    LET field_name == _field_name(field)
    IN  IF IsNullable(field) THEN [var |-> field_name, how |-> "as_is"]
        ELSE IF field.has_default
        THEN [var |-> field_name, how |-> "unwrap_or_else", default |-> _default_value(field, cur)]
        ELSE [var |-> field_name, how |-> "ok_or_else", missing |-> field.name]

\* The body of `impl Serialize`: a unit struct when there is no field.
SerializeBody(struct) ==
    IF struct.all_fields = <<>>
    THEN [unit |-> TRUE, name |-> struct.name]
    ELSE [unit |-> FALSE, name |-> struct.name, len |-> Len(struct.all_fields),
          fields |-> Map(LAMBDA f : [key |-> f.name, member |-> _field_name(f)],
                         struct.all_fields)]

\* (mutation of FIELDS: the list holds the members' names, not the wire names)
FIELDS_resolved(struct) == Map(_field_name, struct.all_fields)

\* const FIELDS: &'static [&'static str]
FIELDS(struct) == Map(LAMBDA f : f.name, struct.all_fields)

_impl_serde_for_struct(struct, cur) ==
    LET type_name == _struct_name(struct)
    IN  << [kind |-> "impl_deserialize", type |-> type_name, expecting |-> struct.name,
            locals |-> Map(_field_name, struct.all_fields),
            arms |-> Map(DeserializeArm, struct.all_fields),
            finals |-> Map(LAMBDA f : DeserializeFinal(f, cur), struct.all_fields),
            FIELDS |-> FIELDS(struct),
            name |-> struct.name],
           Blank,
           [kind |-> "impl_serialize", type |-> type_name, body |-> SerializeBody(struct)],
           Blank >>

\* (mutation of _impl_default_for_struct: every member takes its type's own
\* default, not the schema's)
_impl_default_for_struct_by_type(struct, cur) ==
    << [kind |-> "impl_default", type |-> _struct_name(struct),
        fields |-> Map(LAMBDA f : [member |-> _field_name(f),
                                   value |-> [e |-> "lit", v |-> "Default::default()"]],
                       struct.all_fields)] >>

_impl_default_for_struct(struct, cur) ==
    << [kind |-> "impl_default", type |-> _struct_name(struct),
        fields |-> Map(LAMBDA f : [member |-> _field_name(f), value |-> _default_value(f, cur)],
                       struct.all_fields)] >>

_emit_new_for_struct(struct, cur) ==
    [args |-> Map(LAMBDA f : [name |-> _field_name(f), type |-> _rust_type(f.data_type, cur)],
                  all_required_fields(struct)),
     inits |-> Map(LAMBDA f : [member |-> _field_name(f), how |-> "shorthand"],
                   all_required_fields(struct))
               \o Map(LAMBDA f : [member |-> _field_name(f), how |-> "default",
                                  value |-> _default_value(f, cur)],
                      all_optional_fields(struct)),
     builders |-> Map(LAMBDA f : [name |-> _field_name(f), type |-> _rust_type(f.data_type, cur)],
                      all_optional_fields(struct))]

StructDecl(struct, cur) ==
    _emit_doc(struct.doc) \o
    << [kind |-> "derive"],
       [kind |-> "struct", name |-> _struct_name(struct),
        fields |-> Map(LAMBDA f : [doc |-> _emit_doc(f.doc), name |-> _field_name(f),
                                   type |-> _rust_type(f.data_type, cur)],
                       struct.all_fields)],
       Blank >>

\* Whether a default expression the emitter asks for cannot be produced.
DefaultRaises(struct, cur) ==
    \E i \in 1..Len(struct.all_fields) :
        /\ ~IsRequired(struct.all_fields[i])
        /\ _default_value(struct.all_fields[i], cur) = Raised

_emit_struct(struct, cur) ==
    StructDecl(struct, cur)
    \o (IF all_required_fields(struct) = <<>>
        THEN _impl_default_for_struct(struct, cur) \o <<Blank>> ELSE <<>>)
    \o (IF all_required_fields(struct) # <<>>
        THEN << [kind |-> "impl", type |-> _struct_name(struct),
                 new |-> _emit_new_for_struct(struct, cur)], Blank >>
        ELSE <<>>)
    \o _impl_serde_for_struct(struct, cur)

-----------------------------------------------------------------------------
(* Union Emitter and the union encoder.                                    *)

TagKey == Nm(<<".tag">>, "literal")

Unformatted == Nm(<<"{}">>, "literal")

\* union.name.endswith('Error')
EndsWithError(name) ==
    /\ name.w # <<>>
    /\ Last(name.w) = "error"
    /\ name.c = "pascal" \/ (name.c = "camel" /\ Len(name.w) > 1)

IsPlainStruct(typ) == typ.t = "Struct" /\ typ.subtypes = <<>>

\* (mutation of StructArmLen: the payload is counted as one nested entry)
StructArmLenNested(typ) == 2

\* len(field.data_type.all_fields) + 1
StructArmLen(typ) == Len(typ.all_fields) + 1

SerializeArm(union, field) ==
    LET type_name == _enum_name(union)
        variant_name == _enum_variant_name(field)
        typ == field.data_type
        tag == [key |-> TagKey, value |-> [e |-> "str", v |-> field.name]]
    IN  IF typ.t = "Void"
        THEN [type |-> type_name, variant |-> variant_name, bind |-> "none",
              comment |-> "unit", name |-> union.name, len |-> 1, fields |-> <<tag>>]
        ELSE
          LET needs_x == ~(typ.t = "Struct" /\ typ.all_fields = <<>>)
              ref_x == IF needs_x THEN "ref x" ELSE "_"
          IN  IF typ.t = "Union" \/ (typ.t = "Struct" /\ typ.subtypes # <<>>)
              THEN [type |-> type_name, variant |-> variant_name, bind |-> ref_x,
                    comment |-> "union or polymporphic struct", name |-> Unformatted,
                    len |-> 2,
                    fields |-> <<tag, [key |-> field.name, value |-> [e |-> "x"]]>>]
              ELSE IF typ.t = "Struct"
              THEN [type |-> type_name, variant |-> variant_name, bind |-> ref_x,
                    comment |-> "struct", name |-> union.name, len |-> StructArmLen(typ),
                    fields |-> <<tag>> \o
                        Map(LAMBDA sf : [key |-> sf.name,
                                         value |-> [e |-> "x.", member |-> _field_name(sf)]],
                            typ.all_fields)]
              ELSE [type |-> type_name, variant |-> variant_name, bind |-> ref_x,
                    comment |-> "primitive", name |-> Unformatted, len |-> 2,
                    fields |-> <<tag, [key |-> field.name, value |-> [e |-> "x"]]>>]

_impl_serde_for_union(union) ==
    LET type_name == _enum_name(union)
    IN  << [kind |-> "impl_deserialize", type |-> type_name, body |-> "unimplemented"],
           Blank,
           [kind |-> "impl_serialize", type |-> type_name,
            arms |-> Map(LAMBDA f : SerializeArm(union, f), union.all_fields)],
           Blank >>

_impl_error(type_name) ==
    << [kind |-> "impl_error", type |-> type_name], Blank,
       [kind |-> "impl_display", type |-> type_name], Blank >>

_emit_union(union, cur) ==
    LET enum_name == _enum_name(union)
    IN  _emit_doc(union.doc) \o
        << [kind |-> "derive"],
           [kind |-> "enum", name |-> enum_name,
            variants |-> Map(LAMBDA f : [doc |-> _emit_doc(f.doc),
                                         name |-> _enum_variant_name(f),
                                         payload |-> IF f.data_type.t = "Void" THEN Prim("")
                                                     ELSE _rust_type(f.data_type, cur)],
                             union.all_fields)],
           Blank >>
        \o _impl_serde_for_union(union)
        \o (IF EndsWithError(union.name) THEN _impl_error(enum_name) ELSE <<>>)

-----------------------------------------------------------------------------
(* Polymorphic struct emitter.                                             *)

UnknownVariant == Nm(<<"_Unknown">>, "literal")

_impl_serde_for_polymorphic_struct(struct) ==
    LET type_name == _enum_name(struct)
    IN  << [kind |-> "impl_deserialize", type |-> _enum_name(struct), body |-> "unimplemented"],
           Blank,
           [kind |-> "impl_serialize", type |-> _struct_name(struct),
            arms |-> Map(LAMBDA subtype :
                            [type |-> type_name,
                             variant |-> _enum_variant_name(subtype.data_type),
                             bind |-> "ref x", comment |-> "subtype", name |-> type_name,
                             len |-> Len(subtype.data_type.all_fields) + 1,
                             fields |-> <<[key |-> TagKey,
                                           value |-> [e |-> "str", v |-> subtype.name]]>> \o
                                 Map(LAMBDA f : [key |-> f.name,
                                                 value |-> [e |-> "x.", member |-> _field_name(f)]],
                                     subtype.data_type.all_fields)],
                         struct.subtypes),
            unknown |-> struct.catch_all],
           Blank >>

_emit_polymorphic_struct(struct, cur) ==
    LET enum_name == _enum_name(struct)
    IN  _emit_doc(struct.doc) \o
        << [kind |-> "derive"],
           [kind |-> "enum", name |-> enum_name,
            variants |-> Map(LAMBDA subtype :
                                [doc |-> <<>>, name |-> _enum_variant_name(subtype.data_type),
                                 payload |-> _rust_type(subtype.data_type, cur)],
                             struct.subtypes)
                         \o (IF struct.catch_all
                             THEN <<[doc |-> <<>>, name |-> UnknownVariant,
                                     payload |-> Prim("::serde_json::value::Value")]>>
                             ELSE <<>>)],
           Blank >>
        \o _impl_serde_for_polymorphic_struct(struct)

-----------------------------------------------------------------------------
(* Namespace driver: the pieces of _emit_namespace.                        *)

RECURSIVE Flatten(_)
Flatten(ss) == IF ss = <<>> THEN <<>> ELSE Head(ss) \o Flatten(Tail(ss))

\* The header, the namespace documentation, the `use` line and the aliases.
NamespacePrologue(namespace) ==
    _emit_header
    \o (IF namespace.doc # PyNone
        THEN <<[kind |-> "moddoc", text |-> namespace.doc], Blank>> ELSE <<>>)
    \o <<[kind |-> "use"], Blank>>
    \o Flatten(Map(LAMBDA a : _emit_alias(a, namespace.name), namespace.aliases))
    \o (IF namespace.aliases # <<>> THEN <<Blank>> ELSE <<>>)

\* The body of `for typ in namespace.data_type_by_name.values()`.
EmitType(typ, cur) ==
    IF typ.t = "Struct"
    THEN IF typ.subtypes # <<>> THEN _emit_polymorphic_struct(typ, cur)
         ELSE IF DefaultRaises(typ, cur) THEN StructDecl(typ, cur)
         ELSE _emit_struct(typ, cur)
    ELSE IF typ.t = "Union" THEN _emit_union(typ, cur)
    ELSE <<>>                                        \* WARNING: unhandled type

TypeRaises(typ, cur) == typ.t = "Struct" /\ typ.subtypes = <<>> /\ DefaultRaises(typ, cur)

-----------------------------------------------------------------------------
(* The emitted code, executed.  Values: Val(x) a payload, None / Some(v) an *)
(* Option, Null the wire form of an absent Option, Eval(e) the value of an  *)
(* emitted default expression.                                              *)

Val(x) == [k |-> "val", x |-> x]

None == [k |-> "None"]

Some(v) == [k |-> "Some", of |-> v]

Null == [k |-> "null"]

Eval(expr) == IF expr.e = "None" THEN None ELSE [k |-> "expr", expr |-> expr]

\* serde's Serialize for Option<T>: None is written as null, Some(v) as v.
ToWire(v) == IF v = None THEN Null ELSE IF v.k = "Some" THEN v.of ELSE v

Lines(kind) == SelectSeq(out, LAMBDA l : l.kind = kind)

\* `impl Serialize for <struct>`: serialize(&self)
RunSerialize(impl, self) ==
    IF impl.body.unit
    THEN [kind |-> "unit", name |-> impl.body.name]
    ELSE [kind |-> "map", name |-> impl.body.name, len |-> impl.body.len,
          entries |-> Map(LAMBDA f : [key |-> f.key, value |-> ToWire(self[f.member])],
                          impl.body.fields)]

\* `impl Default for <struct>`: default()
RunDefault(impl) ==
    [m \in { impl.fields[i].member : i \in 1..Len(impl.fields) } |->
        Eval((CHOOSE f \in { impl.fields[i] : i \in 1..Len(impl.fields) } : f.member = m).value)]

Err(error, field, expected, at) ==
    [kind |-> "err", error |-> error, field |-> field, expected |-> expected, at |-> at]

\* The arm `match key` selects: the first whose pattern is the key, 0 for `_`.
ArmFor(impl, key) ==
    IF \E i \in 1..Len(impl.arms) : impl.arms[i].key = key
    THEN CHOOSE i \in 1..Len(impl.arms) :
            /\ impl.arms[i].key = key
            /\ \A j \in 1..(i - 1) : impl.arms[j].key # key
    ELSE 0

\* The first member of `Ok(Type { ... })` whose `?` returns early, 0 when none.
FirstMissing(impl, locals) ==
    LET bad == { i \in 1..Len(impl.finals) :
                    /\ impl.finals[i].how = "ok_or_else"
                    /\ locals[impl.finals[i].var] = None }
    IN  IF bad = {} THEN 0 ELSE CHOOSE i \in bad : \A j \in bad : i <= j

FinalValue(final, locals) ==
    CASE final.how = "as_is"          -> locals[final.var]
      [] final.how = "unwrap_or_else" ->
            IF locals[final.var] = None THEN Eval(final.default) ELSE locals[final.var].of
      [] final.how = "ok_or_else"     -> locals[final.var].of

\* visit_map after the `while let` loop.
VisitMapEnd(impl, locals, at) ==
    LET miss == FirstMissing(impl, locals)
    IN  IF miss # 0
        THEN Err("missing_field", impl.finals[miss].missing, <<>>, at)
        ELSE [kind |-> "ok",
              value |-> [m \in { impl.finals[i].var : i \in 1..Len(impl.finals) } |->
                            FinalValue(CHOOSE f \in { impl.finals[i] : i \in 1..Len(impl.finals) } :
                                          f.var = m, locals)]]

-----------------------------------------------------------------------------
(* The generator run over one namespace.                                   *)

Quiet == [kind |-> "none"]

Ungiven == [given |-> FALSE]

RECURSIVE EmitTypes(_, _)
EmitTypes(types, cur) ==
    IF types = <<>> THEN <<>>
    ELSE IF TypeRaises(Head(types), cur) THEN EmitType(Head(types), cur)
    ELSE EmitType(Head(types), cur) \o EmitTypes(Tail(types), cur)

runVars == <<wire, pos, slots, res, orig, dflt>>

driverVars == <<schema, nsidx, files>>

\* `with self.output_to_relative_path(<name> + '.rs')`: the file is written
\* when the block is left normally.
WriteFile(path, text) == Append(files, [path |-> path, text |-> text])

BeginNamespace ==
    /\ pc = "begin"
    /\ out' = NamespacePrologue(api)
    /\ idx' = 1
    /\ pc' = "routes"
    /\ UNCHANGED <<ident, api, modules, driverVars, runVars>>

EmitRoute ==
    /\ pc = "routes"
    /\ idx <= Len(api.routes)
    /\ out' = out \o _emit_route(api.name, api.routes[idx], api.name)
    /\ IF _emit_route_raises(api.routes[idx])
       THEN pc' = "aborted" /\ idx' = idx
       ELSE pc' = pc /\ idx' = idx + 1
    /\ UNCHANGED <<ident, api, modules, driverVars, runVars>>

EmitNamespaceTypes ==
    /\ pc = "routes"
    /\ idx > Len(api.routes)
    /\ out' = out \o EmitTypes(api.types, api.name)
    /\ IF \E i \in 1..Len(api.types) : TypeRaises(api.types[i], api.name)
       THEN pc' = "aborted" /\ files' = files
       ELSE pc' = "types" /\ files' = WriteFile([name |-> api.name, ext |-> "rs"], out')
    /\ UNCHANGED <<idx, ident, api, modules, schema, nsidx, runVars>>

\* (mutation of EndNamespace: the name is put at the front of the list)
EndNamespaceInsertFirst ==
    /\ pc = "types"
    /\ modules' = <<api.name>> \o modules
    /\ pc' = "done"
    /\ UNCHANGED <<idx, ident, api, out, driverVars, runVars>>

\* `self._modules.append(namespace.name)`, after the `with` block.
EndNamespace ==
    /\ pc = "types"
    /\ modules' = Append(modules, api.name)
    /\ pc' = "done"
    /\ UNCHANGED <<idx, ident, api, out, driverVars, runVars>>

InitRun ==
    /\ wire = Quiet
    /\ pos = 0
    /\ slots = <<>>
    /\ res = Quiet
    /\ orig = Ungiven
    /\ dflt = Quiet

InitGenerator(namespaces) ==
    /\ pc = "begin"
    /\ idx = 0
    /\ ident = Idle
    /\ api \in namespaces
    /\ out = <<>>
    /\ modules = <<>>
    /\ schema = <<api>>
    /\ nsidx = 1
    /\ files = <<>>
    /\ InitRun

-----------------------------------------------------------------------------
(* Schemas.                                                                *)

Files == Nm(<<"files">>, "lower")

Users == Nm(<<"users">>, "lower")

Void == [t |-> "Void"]

NoDefault == [t |-> "None"]

FieldKeys == { Nm(<<"foo">>, "lower"), Nm(<<"type">>, "lower"), Nm(<<"foo", "bar">>, "camel") }

\* Literal defaults are held as Python prints them ("7", "True", "add").
\* A union that default tags refer to.
Mode ==
    [t |-> "Union", name |-> Nm(<<"write", "mode">>, "pascal"), namespace |-> [name |-> Files],
     doc |-> PyNone, catch_all |-> FALSE,
     all_fields |-> << [name |-> Nm(<<"add">>, "lower"), doc |-> PyNone, data_type |-> Void],
                       [name |-> Nm(<<"box">>, "lower"), doc |-> PyNone, data_type |-> Void] >>,
     fields |-> << [name |-> Nm(<<"add">>, "lower"), doc |-> PyNone, data_type |-> Void],
                   [name |-> Nm(<<"box">>, "lower"), doc |-> PyNone, data_type |-> Void] >>]

FieldShapes ==
    { [data_type |-> [t |-> "String"], has_default |-> FALSE, default |-> NoDefault],
      [data_type |-> [t |-> "Nullable", data_type |-> [t |-> "String"]],
       has_default |-> FALSE, default |-> NoDefault],
      [data_type |-> [t |-> "UInt64"], has_default |-> TRUE, default |-> [t |-> "Lit", v |-> "7"]],
      [data_type |-> [t |-> "Boolean"], has_default |-> TRUE, default |-> [t |-> "Lit", v |-> "True"]],
      [data_type |-> [t |-> "String"], has_default |-> TRUE, default |-> [t |-> "Lit", v |-> "add"]],
      [data_type |-> Mode, has_default |-> TRUE,
       default |-> [t |-> "TagRef", union_data_type |-> Mode, tag_name |-> Nm(<<"box">>, "lower")]] }

Fields ==
    { [name |-> n, doc |-> PyNone, data_type |-> s.data_type, has_default |-> s.has_default,
       default |-> s.default] : n \in FieldKeys, s \in FieldShapes }

\* Field lists a schema can hold: the names are distinct, and so are the
\* members they are emitted as.
FieldLists(universe, n) ==
    { fs \in UNION { [1..k -> universe] : k \in 0..n } :
        \A i, j \in 1..Len(fs) : i # j => _field_name(fs[i]) # _field_name(fs[j])
                                          /\ fs[i].name # fs[j].name }

PlainStruct(name, fields) ==
    [t |-> "Struct", name |-> name, namespace |-> [name |-> Files], doc |-> PyNone,
     all_fields |-> fields, subtypes |-> <<>>, catch_all |-> FALSE]

NamespaceOf(routes, types) ==
    [name |-> Files, doc |-> PyNone, aliases |-> <<>>, routes |-> routes, types |-> types]

-----------------------------------------------------------------------------
(* Struct codec: a plain struct is emitted, then its emitted encoder,      *)
(* decoder and Default constructor are run.                                *)

Entry == Nm(<<"entry">>, "pascal")

StructNamespaces ==
    { NamespaceOf(<<>>, <<PlainStruct(Entry, fs)>>) : fs \in FieldLists(Fields, MaxFields) }

InitStruct == InitGenerator(StructNamespaces)

TheStruct == api.types[1]

Deserializer == Lines("impl_deserialize")[1]

Serializer == Lines("impl_serialize")[1]

\* The values a member of the struct can take.
MemberValues(field) ==
    IF IsNullable(field) THEN {None, Some(Val(1)), Some(Val(2))} ELSE {Val(1), Val(2)}

StructValues(struct) ==
    { v \in [ { _field_name(struct.all_fields[i]) : i \in 1..Len(struct.all_fields) } ->
              {None, Some(Val(1)), Some(Val(2)), Val(1), Val(2)} ] :
        \A i \in 1..Len(struct.all_fields) :
            v[_field_name(struct.all_fields[i])] \in MemberValues(struct.all_fields[i]) }

\* The field sets handed to the decoder: any keys in any order, each with a
\* value of the type the decoder reads.
FieldSets ==
    UNION { [1..k -> { [key |-> n, value |-> Val(1)] : n \in FieldKeys }] : k \in 0..MaxEntries }

CallDefault ==
    /\ pc = "done"
    /\ dflt = Quiet
    /\ Lines("impl_default") # <<>>
    /\ dflt' = [kind |-> "ok", value |-> RunDefault(Lines("impl_default")[1])]
    /\ UNCHANGED <<pc, idx, ident, api, out, modules, driverVars, wire, pos, slots, res, orig>>

Serialize ==
    /\ pc = "done"
    /\ \E self \in StructValues(TheStruct) :
          /\ orig' = [given |-> TRUE, value |-> self]
          /\ wire' = RunSerialize(Serializer, self)
    /\ pc' = "serialized"
    /\ UNCHANGED <<idx, ident, api, out, modules, driverVars, pos, slots, res, dflt>>

Receive ==
    /\ pc = "done"
    /\ \E fs \in FieldSets :
          wire' = [kind |-> "map", name |-> TheStruct.name, len |-> Len(fs), entries |-> fs]
    /\ pc' = "received"
    /\ UNCHANGED <<idx, ident, api, out, modules, driverVars, pos, slots, res, orig, dflt>>

\* deserialize(): deserialize_struct hands a map to visit_map; the visitor
\* implements no other visit method, so anything else is an invalid type.
Deserialize ==
    /\ pc \in {"serialized", "received"}
    /\ IF wire.kind = "map"
       THEN /\ slots' = [v \in { Deserializer.locals[i] : i \in 1..Len(Deserializer.locals) } |-> None]
            /\ pos' = 1
            /\ pc' = "visit"
            /\ res' = res
       ELSE /\ res' = Err("invalid_type", NoName, <<>>, 0)
            /\ pc' = "decoded"
            /\ UNCHANGED <<slots, pos>>
    /\ UNCHANGED <<idx, ident, api, out, modules, driverVars, wire, orig, dflt>>

\* One turn of `while let Some(key) = map.next_key()?  { match key { ... } }`.
VisitKey ==
    /\ pc = "visit"
    /\ pos <= Len(wire.entries)
    /\ LET entry == wire.entries[pos]
           a == ArmFor(Deserializer, entry.key)
       IN  IF a = 0
           THEN /\ res' = Err("unknown_field", entry.key, Deserializer.FIELDS, pos)
                /\ pc' = "decoded"
                /\ UNCHANGED <<slots, pos>>
           ELSE IF /\ Deserializer.arms[a].check \in DOMAIN slots
                   /\ slots[Deserializer.arms[a].check] # None
           THEN /\ res' = Err("duplicate_field", Deserializer.arms[a].key, <<>>, pos)
                /\ pc' = "decoded"
                /\ UNCHANGED <<slots, pos>>
           ELSE IF entry.value = Null
           THEN /\ res' = Err("invalid_type", Deserializer.arms[a].key, <<>>, pos)
                /\ pc' = "decoded"
                /\ UNCHANGED <<slots, pos>>
           ELSE /\ slots' = [slots EXCEPT ![Deserializer.arms[a].var] = Some(entry.value)]
                /\ pos' = pos + 1
                /\ UNCHANGED <<pc, res>>
    /\ UNCHANGED <<idx, ident, api, out, modules, driverVars, wire, orig, dflt>>

VisitEnd ==
    /\ pc = "visit"
    /\ pos > Len(wire.entries)
    /\ res' = VisitMapEnd(Deserializer, slots, pos)
    /\ pc' = "decoded"
    /\ UNCHANGED <<idx, ident, api, out, modules, driverVars, wire, pos, slots, orig, dflt>>

NextStruct ==
    \/ BeginNamespace
    \/ EmitNamespaceTypes
    \/ EndNamespace
    \/ CallDefault
    \/ Serialize
    \/ Receive
    \/ Deserialize
    \/ VisitKey
    \/ VisitEnd

SpecStruct == InitStruct /\ [][NextStruct]_vars

-----------------------------------------------------------------------------
(* The naming rules applied to a raw name, and then to their own result.   *)

InitNames ==
    /\ pc = "name"
    /\ idx = 0
    /\ ident \in { [raw |-> r, cat |-> c, once |-> NoName, twice |-> NoName] :
                      r \in RawNames, c \in Categories }
    /\ api = NamespaceOf(<<>>, <<>>)
    /\ out = <<>>
    /\ modules = <<>>
    /\ schema = <<>>
    /\ nsidx = 0
    /\ files = <<>>
    /\ InitRun

ResolveName ==
    /\ pc = "name"
    /\ ident' = [ident EXCEPT !.once = Resolve(ident.cat, [name |-> ident.raw])]
    /\ pc' = "named"
    /\ UNCHANGED <<idx, api, out, modules, driverVars, runVars>>

ResolveAgain ==
    /\ pc = "named"
    /\ ident' = [ident EXCEPT !.twice = Resolve(ident.cat, [name |-> ident.once])]
    /\ pc' = "renamed"
    /\ UNCHANGED <<idx, api, out, modules, driverVars, runVars>>

NextNames == ResolveName \/ ResolveAgain

SpecNames == InitNames /\ [][NextNames]_vars

-----------------------------------------------------------------------------
(* Claims about the naming rules.                                         *)

IsPascalCategory(cat) == cat \in {"struct", "enum", "variant", "alias"}

Converted(cat, raw) == Nm(raw.w, IF IsPascalCategory(cat) THEN "pascal" ELSE "lower")

SuffixWord(cat) ==
    CASE cat = "namespace" -> "namespace"
      [] cat = "struct"    -> "struct"
      [] cat = "enum"      -> "union"
      [] cat = "field"     -> "field"
      [] cat = "variant"   -> "variant"
      [] cat = "route"     -> "route"
      [] cat = "alias"     -> "alias"

\* C8: each of the seven naming functions appends its category's suffix exactly
\* once when the case-converted name is reserved, the result is then not
\* reserved; it returns the case-converted name unchanged otherwise; and it
\* returns its own result unchanged.
C8_NamingIdempotent ==
    LET conv == Converted(ident.cat, ident.raw)
    IN  /\ pc \in {"named", "renamed"} =>
            /\ conv \in RUST_RESERVED_WORDS =>
                  /\ ident.once.w = conv.w \o <<SuffixWord(ident.cat)>>
                  /\ ident.once.c = conv.c
                  /\ ident.once \notin RUST_RESERVED_WORDS
            /\ conv \notin RUST_RESERVED_WORDS => ident.once = conv
        /\ pc = "renamed" => ident.twice = ident.once

\* C8 (witness): _field_name met the reserved word `type` and was applied to
\* its own result.
C8_Witness ==
    /\ pc = "renamed"
    /\ Converted(ident.cat, ident.raw) \in RUST_RESERVED_WORDS
    /\ ident.cat = "field"
    /\ ident.twice = Nm(<<"type", "field">>, "lower")


-----------------------------------------------------------------------------
(* Union encoder: a union is emitted, then one arm of its encoder is run.  *)

\* A struct with enumerated subtypes, as a variant's payload.
Shape ==
    [t |-> "Struct", name |-> Nm(<<"shape">>, "pascal"), namespace |-> [name |-> Files],
     doc |-> PyNone, all_fields |-> <<>>, catch_all |-> FALSE,
     subtypes |-> << [name |-> Nm(<<"entry">>, "lower"), data_type |-> PlainStruct(Entry, <<>>)] >>]

PayloadFields ==
    { [name |-> n, doc |-> PyNone, data_type |-> [t |-> "String"], has_default |-> FALSE,
       default |-> NoDefault] : n \in FieldKeys }

PayloadTypes ==
    {Void, [t |-> "String"], Mode, Shape}
    \cup { PlainStruct(Entry, fs) : fs \in FieldLists(PayloadFields, MaxFields) }

\* A variant may be named like a field of its payload.
Variants == { [name |-> n, doc |-> PyNone, data_type |-> p] : n \in FieldKeys, p \in PayloadTypes }

\* The variants that unions of several variants are built from.
CoreVariants ==
    { v \in Variants : v.data_type \in {Void, [t |-> "String"]}
                        \/ (IsPlainStruct(v.data_type) /\ Len(v.data_type.all_fields) <= 1) }

\* Every union of one variant, and the unions of up to MaxVariants core
\* variants; variant names are unique within a union.
VariantLists ==
    { <<v>> : v \in Variants }
    \cup { vs \in UNION { [1..k -> CoreVariants] : k \in 0..MaxVariants } :
              \A i, j \in 1..Len(vs) : i # j => vs[i].name # vs[j].name }

UnionOf(name, variants) ==
    [t |-> "Union", name |-> name, namespace |-> [name |-> Files], doc |-> PyNone,
     catch_all |-> FALSE, all_fields |-> variants, fields |-> variants]

UnionNamespaces ==
    { NamespaceOf(<<>>, <<UnionOf(n, vs)>>) :
        n \in {Nm(<<"upload", "error">>, "pascal"), Nm(<<"result">>, "pascal")},
        vs \in VariantLists }

InitUnion == InitGenerator(UnionNamespaces)

TheUnion == api.types[1]

\* One arm of `match *self`, run on a value of that variant: the field set
\* it opens with serialize_struct and the entries it writes.
RunArm(arm) ==
    [kind |-> "map", name |-> arm.name, len |-> arm.len,
     entries |-> Map(LAMBDA f : [key |-> f.key,
                                 value |-> IF f.value.e = "str" THEN [k |-> "str", v |-> f.value.v]
                                           ELSE IF f.value.e = "x" THEN [k |-> "payload"]
                                           ELSE [k |-> "member", of |-> f.value.member]],
                     arm.fields)]

SerializeVariant ==
    /\ pc = "done"
    /\ \E i \in 1..Len(Serializer.arms) :
          /\ orig' = [given |-> TRUE, value |-> i]
          /\ wire' = RunArm(Serializer.arms[i])
    /\ pc' = "serialized"
    /\ UNCHANGED <<idx, ident, api, out, modules, driverVars, pos, slots, res, dflt>>

NextUnion ==
    \/ BeginNamespace
    \/ EmitNamespaceTypes
    \/ EndNamespace
    \/ SerializeVariant

SpecUnion == InitUnion /\ [][NextUnion]_vars

-----------------------------------------------------------------------------
(* Routes: a namespace with routes and one struct is emitted.              *)

Arg == PlainStruct(Nm(<<"move", "arg">>, "pascal"), <<>>)

Failure ==
    [t |-> "Union", name |-> Nm(<<"move", "error">>, "pascal"), namespace |-> [name |-> Users],
     doc |-> PyNone, catch_all |-> FALSE, all_fields |-> <<>>, fields |-> <<>>]

RouteNames == { Nm(<<"move">>, "lower"), Nm(<<"list", "folder">>, "camel") }

RouteDocs == { PyNone, "Moves a file." }

HostAttrs == {NoAttrs} \cup { [k \in {"host"} |-> h] : h \in {"api", "content", "notify", "cdn"} }

StyleAttrs == {NoAttrs} \cup { [k \in {"style"} |-> s] : s \in {"rpc", "download", "upload", "stream"} }

Routes ==
    { [name |-> n, doc |-> d, attrs |-> h @@ s, arg_data_type |-> Arg,
       result_data_type |-> Void, error_data_type |-> Failure] :
        n \in RouteNames, d \in RouteDocs, h \in HostAttrs, s \in StyleAttrs }

\* The routes that namespaces of several routes are built from.
CoreRoutes ==
    { r \in Routes :
        /\ r.name = Nm(<<"move">>, "lower")
        /\ r.attrs \in { h @@ st : h \in {NoAttrs, [k \in {"host"} |-> "content"],
                                          [k \in {"host"} |-> "cdn"]},
                                  st \in {NoAttrs, [k \in {"style"} |-> "upload"],
                                           [k \in {"style"} |-> "stream"]} } }

\* Every namespace of one route, and the namespaces of up to MaxRoutes core
\* routes.
RouteLists ==
    { <<r>> : r \in Routes } \cup UNION { [1..k -> CoreRoutes] : k \in 0..MaxRoutes }

RouteNamespaces == { NamespaceOf(rs, <<Arg>>) : rs \in RouteLists }

InitRoutes == InitGenerator(RouteNamespaces)

NextRoutes ==
    \/ BeginNamespace
    \/ EmitRoute
    \/ EmitNamespaceTypes
    \/ EndNamespace

SpecRoutes == InitRoutes /\ [][NextRoutes]_vars

-----------------------------------------------------------------------------
(* Claims about the union encoder.                                         *)

Keys(entries) == Map(LAMBDA e : e.key, entries)

Range(s) == { s[i] : i \in 1..Len(s) }

\* The variant whose arm was run, when its payload is a plain struct.
RanPlainStructArm ==
    /\ pc = "serialized"
    /\ IsPlainStruct(TheUnion.all_fields[orig.value].data_type)

-----------------------------------------------------------------------------
(* Claims about the struct codec.                                          *)

Decoded == pc = "decoded"

Declared == Range(Map(LAMBDA f : f.name, TheStruct.all_fields))

Present == Range(Keys(wire.entries))

Absent == { i \in 1..Len(TheStruct.all_fields) : TheStruct.all_fields[i].name \notin Present }

NoKeyRepeated == \A i, j \in 1..Len(wire.entries) : i # j => wire.entries[i].key # wire.entries[j].key

\* A field set was received (not produced by the encoder) and decoded.
DecodedReceived == Decoded /\ ~orig.given /\ wire.kind = "map"

Member(i) == _field_name(TheStruct.all_fields[i])

\* C2 as stated: encoding any value of a plain struct and decoding the result
\* succeeds and gives the required fields their original values.
C2_RoundTrip ==
    (Decoded /\ orig.given) =>
        /\ res.kind = "ok"
        /\ \A i \in 1..Len(TheStruct.all_fields) :
              IsRequired(TheStruct.all_fields[i]) => res.value[Member(i)] = orig.value[Member(i)]

\* C3: for a field set of declared keys, none repeated: if a field that is
\* neither nullable nor default-bearing is absent, decoding fails with a
\* missing-field error naming such a field; otherwise decoding succeeds,
\* absent nullable fields are None and absent default-bearing fields hold the
\* value of _default_value's expression.
C3_MissingOrDefaulted ==
    (DecodedReceived /\ Present \subseteq Declared /\ NoKeyRepeated) =>
        IF \E i \in Absent : IsRequired(TheStruct.all_fields[i])
        THEN /\ res.kind = "err"
             /\ res.error = "missing_field"
             /\ \E i \in Absent : /\ IsRequired(TheStruct.all_fields[i])
                                  /\ res.field = TheStruct.all_fields[i].name
        ELSE /\ res.kind = "ok"
             /\ \A i \in Absent :
                   res.value[Member(i)] =
                       IF IsNullable(TheStruct.all_fields[i]) THEN None
                       ELSE Eval(_default_value(TheStruct.all_fields[i], api.name))

\* C3 (witness): a field set lacking a default-bearing field was decoded.
C3_Witness ==
    /\ DecodedReceived /\ Present \subseteq Declared /\ NoKeyRepeated
    /\ Present # {}
    /\ \E i \in Absent : TheStruct.all_fields[i].has_default
    /\ res.kind = "ok"

\* The first entry that is an unknown key or a repeated declared key; 0 when
\* there is none.
Offending(i) ==
    \/ wire.entries[i].key \notin Declared
    \/ \E j \in 1..(i - 1) : wire.entries[j].key = wire.entries[i].key

FirstOffending ==
    IF \E i \in 1..Len(wire.entries) : Offending(i)
    THEN CHOOSE i \in 1..Len(wire.entries) : Offending(i) /\ \A j \in 1..(i - 1) : ~Offending(j)
    ELSE 0

\* C4 as stated: a field set holding an unknown key always fails with an
\* unknown-field error naming an unknown key and carrying the declared names,
\* whatever other keys are present or missing.
C4_AsStated ==
    (DecodedReceived /\ ~(Present \subseteq Declared)) =>
        /\ res.kind = "err"
        /\ res.error = "unknown_field"
        /\ res.field \in Present \ Declared
        /\ res.expected = Map(LAMBDA f : f.name, TheStruct.all_fields)

\* C4 (amended): a field set holding an unknown key always fails and no
\* struct value is produced; the error is raised at the first entry that is
\* an unknown key or a repeated declared key: an unknown-field error naming
\* that key and carrying the declared names in the first case, a
\* duplicate-field error naming that key in the second.
C4_UnknownKeyFails ==
    (DecodedReceived /\ ~(Present \subseteq Declared)) =>
        /\ res.kind = "err"
        /\ res.at = FirstOffending
        /\ res.field = wire.entries[FirstOffending].key
        /\ IF wire.entries[FirstOffending].key \notin Declared
           THEN /\ res.error = "unknown_field"
                /\ res.expected = Map(LAMBDA f : f.name, TheStruct.all_fields)
           ELSE res.error = "duplicate_field"

\* C4 (witness): a repeated declared key came before the unknown key.
C4_Witness ==
    /\ DecodedReceived
    /\ ~(Present \subseteq Declared)
    /\ res.kind = "err"
    /\ res.error = "duplicate_field"
    /\ wire.entries[Len(wire.entries)].key \notin Declared

\* The number of values next_value() has handed out.
ValuesRead == Cardinality({ v \in DOMAIN slots : slots[v] # None })

\* C5: a field set of declared keys in which a key appears twice fails with a
\* duplicate-field error naming such a key; the error is raised at the second
\* occurrence of that key, before its value is read, and no value is produced.
C5_DuplicateKeyFails ==
    (DecodedReceived /\ Present \subseteq Declared /\ ~NoKeyRepeated) =>
        /\ res.kind = "err"
        /\ res.error = "duplicate_field"
        /\ res.at \in 1..Len(wire.entries)
        /\ wire.entries[res.at].key = res.field
        /\ Cardinality({ j \in 1..(res.at - 1) : wire.entries[j].key = res.field }) = 1
        /\ ValuesRead = res.at - 1

\* C5 (witness): the third entry repeated an earlier key.
C5_Witness ==
    /\ DecodedReceived /\ Present \subseteq Declared /\ ~NoKeyRepeated
    /\ res.kind = "err"
    /\ res.error = "duplicate_field"
    /\ res.at = 3
    /\ Len(wire.entries) = 3

\* C6: for a plain struct with no required field, decoding the empty field
\* set succeeds and gives, field for field, the value the emitted Default
\* constructor returns.
C6_EmptyDecodesToDefault ==
    (DecodedReceived /\ wire.entries = <<>> /\ all_required_fields(TheStruct) = <<>>) =>
        /\ res.kind = "ok"
        /\ Lines("impl_default") # <<>>
        /\ dflt.kind = "ok" => res.value = dflt.value

\* C6 (witness): the empty field set and the Default constructor gave the
\* same value for a struct with a nullable and a default-bearing field.
C6_Witness ==
    /\ DecodedReceived /\ wire.entries = <<>> /\ all_required_fields(TheStruct) = <<>>
    /\ Len(TheStruct.all_fields) = MaxFields
    /\ \E i \in 1..Len(TheStruct.all_fields) : TheStruct.all_fields[i].has_default
    /\ \E i \in 1..Len(TheStruct.all_fields) : IsNullable(TheStruct.all_fields[i])
    /\ dflt.kind = "ok"
    /\ res.kind = "ok"
    /\ res.value = dflt.value

-----------------------------------------------------------------------------
(* Claims about the route emitter.                                         *)

Supported(fn) ==
    /\ AttrGet(fn.attrs, "host", "api") \in {"api", "content", "notify"}
    /\ AttrGet(fn.attrs, "style", "rpc") \in {"rpc", "download", "upload"}

\* What _emit_namespace writes for a namespace.
NamespaceText(namespace) ==
    NamespacePrologue(namespace)
    \o Flatten(Map(LAMBDA fn : _emit_route(namespace.name, fn, namespace.name), namespace.routes))
    \o EmitTypes(namespace.types, namespace.name)

\* The namespace with its unsupported routes not declared.
WithoutUnsupported(namespace) ==
    [namespace EXCEPT !.routes = SelectSeq(namespace.routes, Supported)]

Functions(lines) == SelectSeq(lines, LAMBDA l : l.kind \in {"fn", "call", "close"})

Occurs(block, lines) ==
    \E k \in 0..(Len(lines) - Len(block)) : SubSeq(lines, k + 1, k + Len(block)) = block

EndsWith(lines, block) ==
    /\ Len(block) <= Len(lines)
    /\ SubSeq(lines, Len(lines) - Len(block) + 1, Len(lines)) = block

\* C7: a route with an unsupported host or style does not stop the run; the
\* functions emitted are those of the namespace without that route, each
\* supported route's function is emitted whole, with its documentation, as
\* _emit_route writes it on its own, and the namespace's types follow.
C7_OtherRoutesUnaffected ==
    /\ pc # "aborted"
    /\ pc = "done" =>
          /\ Functions(out) = Functions(NamespaceText(WithoutUnsupported(api)))
          /\ \A i \in 1..Len(api.routes) :
                Supported(api.routes[i]) =>
                    Occurs(_emit_doc(api.routes[i].doc)
                           \o Functions(NamespaceText(NamespaceOf(<<api.routes[i]>>, <<>>)))
                           \o <<Blank>>, out)
          /\ EndsWith(out, EmitTypes(api.types, api.name))
          /\ Len(Lines("struct")) = Len(api.types)

\* C7 (witness): a documented unsupported route came first, a supported one
\* last, and the run finished.
C7_Witness ==
    /\ pc = "done"
    /\ Len(api.routes) = MaxRoutes
    /\ ~Supported(api.routes[1])
    /\ api.routes[1].doc # PyNone
    /\ Supported(api.routes[MaxRoutes])
    /\ Len(Lines("fn")) = 1

\* The route the generator emitted last, and the lines it wrote for it.
LastRoute == api.routes[idx - 1]

EmittedSupported == pc = "routes" /\ idx > 1 /\ Supported(LastRoute)

LastFn == out[Len(out) - 3]

LastCall == out[Len(out) - 2]

\* C9: the endpoint follows from the host alone and the shape of the function
\* from the style alone: rpc calls request with no body and returns the bare
\* success type; download takes range_start and range_end, calls
\* request_with_body with the range and no body and wraps the success type in
\* HttpRequestResult; upload takes a body and calls request_with_body with the
\* body and no range.  The path is "<namespace.name>/<fn.name>", raw names.
C9_RouteByStyleAndHost ==
    EmittedSupported =>
        LET host == AttrGet(LastRoute.attrs, "host", "api")
            style == AttrGet(LastRoute.attrs, "style", "rpc")
            endpoint == CASE host = "api" -> "Endpoint::Api"
                          [] host = "content" -> "Endpoint::Content"
                          [] host = "notify" -> "Endpoint::Notify"
            lead == <<"client", endpoint, "path", "arg">>
        IN  /\ LastFn.kind = "fn" /\ LastCall.kind = "call"
            /\ out[Len(out) - 1] = Close /\ out[Len(out)] = Blank
            /\ LastCall.endpoint = endpoint
            /\ LastCall.path = <<api.name, LastRoute.name>>
            /\ LastFn.ok = Prim("()")
            /\ style = "rpc" =>
                  /\ LastFn.params = <<"client", "arg">>
                  /\ LastFn.envelope = "none"
                  /\ LastCall.helper = "request"
                  /\ LastCall.args = lead \o <<"None">>
            /\ style = "download" =>
                  /\ LastFn.params = <<"client", "arg", "range_start", "range_end">>
                  /\ LastFn.envelope = "HttpRequestResult"
                  /\ LastCall.helper = "request_with_body"
                  /\ LastCall.args = lead \o <<"None", "range_start", "range_end">>
            /\ style = "upload" =>
                  /\ LastFn.params = <<"client", "arg", "body">>
                  /\ LastCall.helper = "request_with_body"
                  /\ LastCall.args = lead \o <<"Some(body)", "None", "None">>

\* C9 (witness): a route with host=content and style=download was emitted.
C9_Witness ==
    /\ EmittedSupported
    /\ LastRoute.attrs = [k \in {"host", "style"} |-> IF k = "host" THEN "content" ELSE "download"]
    /\ LastRoute.name = Nm(<<"list", "folder">>, "camel")
    /\ LastFn.name = Nm(<<"list", "folder">>, "lower")
    /\ LastCall.endpoint = "Endpoint::Content"
    /\ LastFn.envelope = "HttpRequestResult"

\* C10 as stated: a route with an unsupported host or style writes nothing,
\* so the output is that of the namespace with the route removed.
C10_SkippedRouteWritesNothing ==
    pc = "done" => out = NamespaceText(WithoutUnsupported(api))

-----------------------------------------------------------------------------
(* generate(api): every namespace is emitted into its own source unit,     *)
(* then the module index mod.rs is written.                                *)

MaxNamespaces == 2   \* namespaces of a schema

ModRs == [name |-> Nm(<<"mod">>, "lower"), ext |-> "rs"]

\* The text of mod.rs.
_generate_mod_file ==
    _emit_header \o Map(LAMBDA module : [kind |-> "pub_mod", name |-> module], modules)

\* `for namespace in api.namespaces.values()`: the next namespace is taken.
NextNamespace ==
    /\ pc \in {"generate", "done"}
    /\ nsidx < Len(schema)
    /\ nsidx' = nsidx + 1
    /\ api' = schema[nsidx + 1]
    /\ out' = <<>>
    /\ idx' = 0
    /\ pc' = "begin"
    /\ UNCHANGED <<ident, modules, schema, files, runVars>>

\* The loop is over: self._generate_mod_file().
GenerateModFile ==
    /\ pc \in {"generate", "done"}
    /\ nsidx = Len(schema)
    /\ files' = WriteFile(ModRs, _generate_mod_file)
    /\ out' = _generate_mod_file
    /\ pc' = "finished"
    /\ UNCHANGED <<idx, ident, api, modules, schema, nsidx, runVars>>

-----------------------------------------------------------------------------
(* Schemas of several namespaces.  Every namespace declares one type (a    *)
(* plain struct, a struct with enumerated subtypes, a union, or a struct   *)
(* whose default refers to a union without variants) and a struct Holder   *)
(* that has a member of the type declared by the next namespace; it may    *)
(* declare a route whose argument is that type.                            *)

FileRequests == Nm(<<"file", "requests">>, "camel")

NamespaceNames == {Files, Users, Nm(<<"type">>, "lower"), FileRequests}

TypeNames == {Entry, Nm(<<"option">>, "pascal"), Nm(<<"box">>, "lower")}

Kinds == {"struct", "poly", "union", "dangling"}

FieldOf(name, typ) ==
    [name |-> name, doc |-> PyNone, data_type |-> typ, has_default |-> FALSE, default |-> NoDefault]

StructIn(nsname, name, fields, subtypes) ==
    [t |-> "Struct", name |-> name, namespace |-> [name |-> nsname], doc |-> PyNone,
     all_fields |-> fields, subtypes |-> subtypes, catch_all |-> FALSE]

UnionIn(nsname, name, own, inherited) ==
    [t |-> "Union", name |-> name, namespace |-> [name |-> nsname], doc |-> PyNone,
     catch_all |-> FALSE, all_fields |-> inherited \o own, fields |-> own]

TagRef(union, tag_name) == [t |-> "TagRef", union_data_type |-> union, tag_name |-> tag_name]

Foo == Nm(<<"foo">>, "lower")

Target(tpl) ==
    CASE tpl.kind = "struct" ->
            StructIn(tpl.name, tpl.type, <<FieldOf(Foo, [t |-> "String"])>>, <<>>)
      [] tpl.kind = "poly" ->
            StructIn(tpl.name, tpl.type, <<>>,
                     << [name |-> Nm(<<"file">>, "lower"),
                         data_type |-> StructIn(tpl.name, Nm(<<"file", "entry">>, "pascal"),
                                                <<FieldOf(Foo, [t |-> "String"])>>, <<>>)] >>)
      [] tpl.kind = "union" ->
            UnionIn(tpl.name, tpl.type,
                    <<[name |-> Nm(<<"add">>, "lower"), doc |-> PyNone, data_type |-> Void]>>, <<>>)
      [] tpl.kind = "dangling" ->
            LET empty == UnionIn(tpl.name, Nm(<<"empty">>, "pascal"), <<>>, <<>>)
            IN  StructIn(tpl.name, tpl.type,
                         << [name |-> Foo, doc |-> PyNone, data_type |-> empty,
                             has_default |-> TRUE,
                             default |-> TagRef(empty, Nm(<<"add">>, "lower"))] >>, <<>>)

Holder(nsname, target) ==
    StructIn(nsname, Nm(<<"holder">>, "pascal"),
             <<FieldOf(Nm(<<"item">>, "lower"), target)>>, <<>>)

Get(target) ==
    [name |-> Nm(<<"get">>, "lower"), doc |-> PyNone, attrs |-> NoAttrs,
     arg_data_type |-> target, result_data_type |-> Void, error_data_type |-> Void]

Templates == [name : NamespaceNames, kind : Kinds, type : TypeNames, route : BOOLEAN]

\* The namespaces that schemas of several namespaces are built from.
CoreTemplates ==
    { [name |-> Files, kind |-> "struct", type |-> Entry, route |-> TRUE],
      [name |-> Nm(<<"type">>, "lower"), kind |-> "poly", type |-> Nm(<<"box">>, "lower"),
       route |-> FALSE],
      [name |-> FileRequests, kind |-> "union", type |-> Nm(<<"option">>, "pascal"),
       route |-> TRUE],
      [name |-> Users, kind |-> "poly", type |-> Entry, route |-> FALSE],
      [name |-> Users, kind |-> "dangling", type |-> Entry, route |-> FALSE] }

\* api.namespaces is keyed by name: the names are distinct.
TemplateLists ==
    { <<t>> : t \in Templates }
    \cup { ts \in UNION { [1..k -> CoreTemplates] : k \in 0..MaxNamespaces } :
              \A i, j \in 1..Len(ts) : i # j => ts[i].name # ts[j].name }

SchemaOf(ts) ==
    [i \in 1..Len(ts) |->
        LET referred == Target(ts[(i % Len(ts)) + 1])
        IN  [name |-> ts[i].name, doc |-> PyNone, aliases |-> <<>>,
             routes |-> IF ts[i].route THEN <<Get(referred)>> ELSE <<>>,
             types |-> <<Target(ts[i]), Holder(ts[i].name, referred)>>]]

Schemas == { SchemaOf(ts) : ts \in TemplateLists }

NoNamespace == [name |-> NoName, doc |-> PyNone, aliases |-> <<>>, routes |-> <<>>, types |-> <<>>]

InitGenerate ==
    /\ pc = "generate"
    /\ idx = 0
    /\ ident = Idle
    /\ schema \in Schemas
    /\ nsidx = 0
    /\ api = NoNamespace
    /\ out = <<>>
    /\ modules = <<>>
    /\ files = <<>>
    /\ InitRun

NextGenerate ==
    \/ NextNamespace
    \/ BeginNamespace
    \/ EmitRoute
    \/ EmitNamespaceTypes
    \/ EndNamespace
    \/ GenerateModFile

SpecGenerate == InitGenerate /\ [][NextGenerate]_vars

-----------------------------------------------------------------------------
(* The module index.                                                       *)

Names(namespaces) == [i \in 1..Len(namespaces) |-> namespaces[i].name]

UnitOf(name) == [name |-> name, ext |-> "rs"]

Written(path) == \E i \in 1..Len(files) : files[i].path = path

\* The whole source unit of a namespace.
FullUnit(namespace) ==
    NamespacePrologue(namespace)
    \o Flatten(Map(LAMBDA fn : _emit_route(namespace.name, fn, namespace.name), namespace.routes))
    \o EmitTypes(namespace.types, namespace.name)

\* The `pub mod` entries of a text, in order.
PubMods(text) ==
    LET entries == SelectSeq(text, LAMBDA l : l.kind = "pub_mod")
    IN  [i \in 1..Len(entries) |-> entries[i].name]

IsPrefix(s, t) == Len(s) <= Len(t) /\ \A i \in 1..Len(s) : s[i] = t[i]

ModulesInOrder ==
    /\ IsPrefix(modules, Names(schema))
    /\ Len(modules) <= nsidx
    /\ Len(modules) <= Len(files)
    /\ \A i \in 1..Len(modules) :
          files[i] = [path |-> UnitOf(modules[i]), text |-> FullUnit(schema[i])]

IndexIsLast ==
    Written(ModRs) =>
        /\ pc = "finished"
        /\ nsidx = Len(schema)
        /\ modules = Names(schema)
        /\ Len(files) = Len(schema) + 1
        /\ files[Len(files)].path = ModRs
        /\ PubMods(files[Len(files)].text) = Names(schema)
        /\ \A i \in 1..Len(schema) : files[i].path # ModRs

\* C11: over a run of generate(), the module-name list only grows at its
\* end; a namespace's name is appended once, after the namespace's source
\* unit has been written in full, so the list is always the names of the
\* first namespaces in processing order; mod.rs is written only after every
\* namespace has been processed, as the last file, and its `pub mod` entries
\* are the namespaces' names, one each, in processing order.
C11_ModuleIndex ==
    /\ [](ModulesInOrder /\ IndexIsLast)
    /\ [][modules' = modules \/ (pc = "types" /\ modules' = Append(modules, api.name))]_vars

\* C11 (witness): a run over two namespaces has written mod.rs.
C11_Witness ==
    /\ pc = "finished"
    /\ Len(schema) = 2
    /\ Written(ModRs)
    /\ Len(PubMods(files[3].text)) = 2

-----------------------------------------------------------------------------
(* Defaults that refer to a union's tag: a struct whose only field carries *)
(* such a default is emitted, then its Default constructor is run.         *)

TagNames == { Nm(<<"add">>, "lower"), Nm(<<"box">>, "lower"), Nm(<<"overwrite">>, "lower") }

VoidVariant(name) == [name |-> name, doc |-> PyNone, data_type |-> Void]

\* Variant lists without a repeated name.
TagLists(n) ==
    { vs \in UNION { [1..k -> { VoidVariant(t) : t \in TagNames }] : k \in 0..n } :
        \A i, j \in 1..Len(vs) : i # j => vs[i].name # vs[j].name }

\* Unions of own and (at most one) inherited variants, declared in this
\* namespace or in another one.
TagUnions ==
    { UnionIn(nsname, Nm(<<"write", "mode">>, "pascal"), own, inherited) :
        nsname \in {Files, Users},
        own \in TagLists(MaxVariants),
        inherited \in { vs \in TagLists(1) : TRUE } }

DefaultNamespaces ==
    { NamespaceOf(<<>>,
        << PlainStruct(Entry, << [name |-> Nm(<<"mode">>, "lower"), doc |-> PyNone,
                                  data_type |-> u, has_default |-> TRUE,
                                  default |-> TagRef(u, tag)] >>) >>) :
        u \in { x \in TagUnions :
                  \A i \in 1..Len(x.all_fields), j \in 1..Len(x.all_fields) :
                      i # j => x.all_fields[i].name # x.all_fields[j].name },
        tag \in TagNames }

InitDefault == InitGenerator(DefaultNamespaces)

NextDefault ==
    \/ BeginNamespace
    \/ EmitNamespaceTypes
    \/ EndNamespace
    \/ CallDefault

SpecDefault == InitDefault /\ [][NextDefault]_vars

\* The constructor expression `<union type>::<Variant>`.
Constructor(union, variant, cur) ==
    [e |-> "variant", type |-> _rust_type(union, cur), variant |-> _enum_variant_name(variant)]

\* The default expression the emitted Default constructor gives the member.
EmittedDefault == Lines("impl_default")[1].fields[1].value

\* C12: for a field whose default is a tag reference into a union (its type
\* neither nullable nor numeric), the run is never aborted, whatever the
\* union (one without variants included); the default emitted is the
\* qualified constructor of the variant named like the tag when the union
\* has one, and otherwise that of the last variant scanned.
C12_TagRefDefault ==
    /\ pc # "aborted"
    /\ pc \in {"types", "done"} =>
          LET field == TheStruct.all_fields[1]
              union == field.default.union_data_type
              named == { i \in 1..Len(union.all_fields) :
                           union.all_fields[i].name = field.default.tag_name }
          IN  /\ Lines("impl_default") # <<>>
              /\ union.all_fields # <<>>
              /\ EmittedDefault =
                    IF named # {}
                    THEN Constructor(union, union.all_fields[CHOOSE i \in named : TRUE], api.name)
                    ELSE Constructor(union, Last(union.all_fields), api.name)

-----------------------------------------------------------------------------
(* The names a declared type goes by in the emitted text.                  *)

\* The first line of one of the kinds in a text.
FirstOf(text, kinds) ==
    text[CHOOSE i \in 1..Len(text) :
            /\ text[i].kind \in kinds
            /\ \A j \in 1..(i - 1) : text[j].kind \notin kinds]

HolderName == Nm(<<"holder">>, "pascal")

\* The declaration of the struct Holder in a text.
HolderDecl(text) ==
    SelectSeq(text, LAMBDA l : l.kind = "struct" /\ l.name = HolderName)[1]

\* The namespace whose Holder and route refer to the type of namespace i.
Referrer(i) == IF i = 1 THEN Len(schema) ELSE i - 1

\* The names that the unit of namespace i and the unit referring to it
\* use for the type namespace i declares.
DeclaredAs(i) == FirstOf(files[i].text, {"struct", "enum"}).name

DecoderFor(i) == FirstOf(files[i].text, {"impl_deserialize"}).type

EncoderFor(i) == FirstOf(files[i].text, {"impl_serialize"}).type

ArmsOf(i) ==
    LET ser == FirstOf(files[i].text, {"impl_serialize"})
    IN  IF "arms" \in DOMAIN ser THEN { ser.arms[k].type : k \in 1..Len(ser.arms) } ELSE {}

ReferredAs(i) ==
    LET text == files[Referrer(i)].text
        fns == SelectSeq(text, LAMBDA l : l.kind = "fn")
    IN  {HolderDecl(text).fields[1].type.name} \cup { fns[k].arg.name : k \in 1..Len(fns) }

\* C13: once every unit is written, each declared type (plain struct,
\* struct with enumerated subtypes, union; whatever its raw name) goes by
\* one identifier: its declaration, the type its decoder and its encoder
\* are implemented for, the encoder's match arms, and the references to it
\* from another struct or a route all use the same name.
C13_OneIdentifier ==
    pc = "finished" =>
        \A i \in 1..Len(schema) :
            /\ DecoderFor(i) = DeclaredAs(i)
            /\ EncoderFor(i) = DeclaredAs(i)
            /\ \A n \in ArmsOf(i) : n = DeclaredAs(i)
            /\ \A n \in ReferredAs(i) : n = DeclaredAs(i)

-----------------------------------------------------------------------------
(* The module a namespace is emitted as, and the module it is referred by. *)

\* The modules that the unit referring to namespace i names in
\* `super::<module>::<Type>`.
QualifiedBy(i) ==
    LET text == files[Referrer(i)].text
        fns == SelectSeq(text, LAMBDA l : l.kind = "fn")
    IN  {HolderDecl(text).fields[1].type.mod} \cup { fns[k].arg.mod : k \in 1..Len(fns) }

\* C14: once mod.rs is written, the module by which another namespace
\* qualifies a reference to a type of namespace N is the module N is listed
\* as in mod.rs and the name of the file N's unit is written to, for every
\* namespace name.
C14_OneModuleName ==
    pc = "finished" =>
        \A i \in 1..Len(schema) :
            Referrer(i) # i =>
                \A module \in QualifiedBy(i) :
                    /\ module = PubMods(files[Len(files)].text)[i]
                    /\ module = files[i].path.name
====
